---- MODULE Spec2Model ----
(***************************************************************************)
(* CRUDBase of sa_modelcrud (src/sa_modelcrud/crud/base.py): a generic     *)
(* accessor over one record type, driven through an AsyncSession.          *)
(*                                                                         *)
(* The state is the table behind `self.model` (rows in storage order), the *)
(* wall clock read by datetime.utcnow(), and the outcome of the last call  *)
(* (its name and arguments, what it returned, what it raised).             *)
(*                                                                         *)
(* The record type modelled has the columns                                *)
(*   uid        unique identifier (unique, generated when not supplied)    *)
(*   token      text, UNIQUE, NOT NULL (the Sample.token of the tests)     *)
(*   note       free-form column that stores the value it is given         *)
(*   updated_at timestamp, stamped by save                                 *)
(* A row's position in `store` is the row itself (storage order, SQLite's  *)
(* rowid order): an UPDATE rewrites the row in place, an INSERT appends, a *)
(* DELETE closes the gap.  An object loaded by the session remembers the   *)
(* identity key it was loaded under (`_key`, the uid at load time), which  *)
(* is how the flush finds its row even when the uid attribute was changed. *)
(***************************************************************************)
EXTENDS Integers, Sequences, FiniteSets, TLC

VARIABLES
    store,      \* the table: its rows, in storage order
    now,        \* the wall clock datetime.utcnow() reads
    call,       \* the call in progress: its name and arguments
    result,     \* what the call returned: a sequence of objects (empty: None)
    error,      \* what the call raised, or "none"
    violated,   \* the constraints the storage found violated during the call
    uidState    \* per uid: never created, created, or deleted since

vars == <<store, now, call, result, error, violated, uidState>>

\* ---------------------------------------------------------------- bounds
\* uids the record type can generate, the last reading of the clock, and the
\* largest skip and limit a caller passes besides the defaults
MaxUid == 2
MaxClock == 1
MaxSkip == 2
MaxLimit == 2

\* defaults of list(): skip: int = 0, limit: int = 100
DefaultSkip == 0
DefaultLimit == 100

\* ---------------------------------------------------------------- values
Str(s) == [kind |-> "str", v |-> s]
Dt(s) == [kind |-> "datetime", v |-> s]
Null == [kind |-> "null", v |-> ""]

UIDs == 1..MaxUid
Tokens == {Str("t1"), Str("t2")}

Columns == {"uid", "token", "note", "updated_at"}

Min(a, b) == IF a < b THEN a ELSE b
Max(a, b) == IF a > b THEN a ELSE b

One(f, v) == [g \in {f} |-> v]
Merge(p, q) == [f \in DOMAIN p \cup DOMAIN q |-> IF f \in DOMAIN q THEN q[f] ELSE p[f]]

\* CreateSchemaType values: token may be absent (None) or text; note is text
\* or a datetime (a value that is not JSON-native).
CreateInputs ==
    {[token |-> t, note |-> n] : t \in Tokens \cup {Null}, n \in {Str("a"), Dt("D1")}}

\* UpdateSchemaType / Dict[str, Any] values: any subset of the attributes,
\* including uid, updated_at and a name that is no column.
PayloadField(f) ==
    CASE f = "uid" -> {One(f, u) : u \in UIDs}
      [] f = "token" -> {One(f, t) : t \in Tokens \cup {Null}}
      [] f = "note" -> {One(f, Str("a"))}
      [] f = "updated_at" -> {One(f, MaxClock + 1)}
      [] f = "bogus" -> {One(f, Str("x"))}

PayloadFields == {"uid", "token", "note", "updated_at", "bogus"}

\* a payload of one field, the empty payload, and one of two fields
Payloads ==
    UNION {PayloadField(f) : f \in PayloadFields}
    \cup {<<>>}
    \cup {Merge(One("token", Str("t2")), One("note", Str("a")))}

\* what a caller changed on a loaded object before handing it to save
Mutations == PayloadField("uid") \cup PayloadField("updated_at") \cup {<<>>}

\* the batch of the test suite: two inputs with distinct tokens
Batches == {<<[token |-> Str("t1"), note |-> Str("a")],
              [token |-> Str("t2"), note |-> Str("a")]>>}

\* ------------------------------------------------------------- the session
\* db.execute(select(model).where(model.uid == uid))
Where(s, uid) == SelectSeq(s, LAMBDA r : r.uid = uid)

\* Result.scalar(): the first row, or None (the empty sequence here)
Scalar(rows) == IF rows = <<>> THEN <<>> ELSE <<Head(rows)>>

\* .offset(skip) and .limit(limit) of a select
Offset(rows, skip) == SubSeq(rows, skip + 1, Len(rows))
Limit(rows, limit) == SubSeq(rows, 1, Min(limit, Len(rows)))

HasAttr(obj, f) == f \in Columns \/ f \in DOMAIN obj
SetAttr(obj, f, v) == [g \in DOMAIN obj \cup {f} |-> IF g = f THEN v ELSE obj[g]]

\* the session loads a row as a persistent object: its attributes and the
\* identity key it was loaded under
Load(row) == SetAttr(row, "_key", row.uid)

\* Result.scalars().all(): every row, as loaded objects
All(rows) == [i \in DOMAIN rows |-> Load(rows[i])]

IsPersistent(obj) == "_key" \in DOMAIN obj

\* the row a flush writes for obj: its mapped columns
Row(obj) == [c \in Columns |-> obj[c]]

\* the rows of the table other than obj's own
Others(s, obj) ==
    IF IsPersistent(obj) THEN SelectSeq(s, LAMBDA r : r.uid # obj._key) ELSE s

\* constraints the storage checks at flush
Violations(s, obj) ==
    (IF obj.token = Null THEN {"notnull"} ELSE {})
    \cup
    (IF \E i \in DOMAIN Others(s, obj) :
           \/ Others(s, obj)[i].uid = obj.uid
           \/ Others(s, obj)[i].token = obj.token
     THEN {"unique"} ELSE {})

\* db.add(obj); db.commit(): UPDATE of obj's row in place, or INSERT of a new
\* row at the end of the table
Persist(s, obj) ==
    IF IsPersistent(obj)
    THEN [i \in DOMAIN s |-> IF s[i].uid = obj._key THEN Row(obj) ELSE s[i]]
    ELSE Append(s, Row(obj))

\* db.delete(obj); db.commit()
Remove(s, obj) == SelectSeq(s, LAMBDA r : r.uid # obj._key)

\* ------------------------------------------------------------ the accessor
Methods == {"get", "get_or_raise", "list", "filter", "find", "find_one",
            "save", "create", "update", "delete"}

get(s, uid) == All(Scalar(Where(s, uid)))

get_or_raise(s, uid) ==
    LET obj == get(s, uid)
    IN IF obj = <<>>
       THEN [result |-> <<>>, raised |-> "NotFoundException"]
       ELSE [result |-> obj, raised |-> "none"]

\* a list that forgets .offset(skip)
list_NoOffset(s, skip, limit) == All(Limit(s, limit))

list(s, skip, limit) == All(Limit(Offset(s, skip), limit))

utcnow(t) == t

\* a save that stamps updated_at only on objects that are not stored yet
save_StampNewOnly(s, obj, t) ==
    LET stamped == IF HasAttr(obj, "updated_at") /\ ~IsPersistent(obj)
                   THEN SetAttr(obj, "updated_at", utcnow(t))
                   ELSE obj
        v == Violations(s, stamped)
    IN IF v # {}
       THEN [store |-> s, result |-> <<>>, raised |-> "IntegrityError", violated |-> v]
       ELSE [store |-> Persist(s, stamped), result |-> <<Load(Row(stamped))>>,
             raised |-> "none", violated |-> {}]

save(s, obj, t) ==
    LET stamped == IF HasAttr(obj, "updated_at")
                   THEN SetAttr(obj, "updated_at", utcnow(t))
                   ELSE obj
        v == Violations(s, stamped)
    IN IF v # {}
       THEN [store |-> s, result |-> <<>>, raised |-> "IntegrityError", violated |-> v]
       ELSE [store |-> Persist(s, stamped), result |-> <<Load(Row(stamped))>>,
             raised |-> "none", violated |-> {}]

\* pydantic's model_dump(mode="json"): values that are not JSON-native are
\* serialised (a datetime to its ISO string)
JsonEncode(v) == IF v.kind = "datetime" THEN Str(v.v) ELSE v

\* a dump in python mode, which keeps every value as it is
model_dump_python(data) == data

model_dump_json(data) == [f \in DOMAIN data |-> JsonEncode(data[f])]

\* self.model(mapping): a transient object with the mapping's attributes and
\* the uid the record type generates
Model(mapping, uid) == SetAttr(mapping, "uid", uid)

\* a create that lets the storage error through
create_NoCatch(s, data, uid, t) == save(s, Model(model_dump_json(data), uid), t)

create(s, data, uid, t) ==
    LET db_obj == Model(model_dump_json(data), uid)
        out == save(s, db_obj, t)
    IN IF out.raised = "IntegrityError"
       THEN [out EXCEPT !.raised = "CreateException"]
       ELSE out

\* model_dump(exclude_unset=True), or the dict as given: the fields present
update_data(data) == data

\* an update that dumps the payload without exclude_unset: an unset note
\* arrives as None and is assigned like the rest
update_DumpUnset(s, obj, data, t) ==
    save(s, Merge(Merge(obj, One("note", Null)), update_data(data)), t)

update(s, obj, data, t) == save(s, Merge(obj, update_data(data)), t)

delete(s, uid) ==
    LET found == get_or_raise(s, uid)
    IN IF found.raised # "none"
       THEN [store |-> s, result |-> <<>>, raised |-> found.raised]
       ELSE [store |-> Remove(s, found.result[1]), result |-> found.result,
             raised |-> "none"]

\* -------------------------------------------------------------- the calls
NoCall == [name |-> "init", uid |-> 0, pos |-> 0, data |-> <<>>, skip |-> 0,
           limit |-> 0, elements |-> <<>>]

Init ==
    /\ store = <<>>
    /\ now = 0
    /\ call = NoCall
    /\ result = <<>>
    /\ error = "none"
    /\ violated = {}
    /\ uidState = [u \in UIDs |-> "never"]

\* no call is in progress: the caller is between two awaits
Idle == call = NoCall

\* the wall clock moves on between calls
Tick ==
    /\ Idle
    /\ now < MaxClock
    /\ now' = now + 1
    /\ UNCHANGED <<store, call, result, error, violated, uidState>>

Get ==
    /\ Idle
    /\ \E uid \in UIDs :
        /\ call' = [NoCall EXCEPT !.name = "get", !.uid = uid]
        /\ result' = get(store, uid)
        /\ error' = "none"
        /\ violated' = {}
        /\ UNCHANGED <<store, now, uidState>>

GetOrRaise ==
    /\ Idle
    /\ \E uid \in UIDs :
        LET out == get_or_raise(store, uid)
        IN /\ call' = [NoCall EXCEPT !.name = "get_or_raise", !.uid = uid]
           /\ result' = out.result
           /\ error' = out.raised
           /\ violated' = {}
           /\ UNCHANGED <<store, now, uidState>>

List ==
    /\ Idle
    /\ \E skip \in 0..MaxSkip, limit \in (0..MaxLimit) \cup {DefaultLimit} :
        /\ call' = [NoCall EXCEPT !.name = "list", !.skip = skip, !.limit = limit]
        /\ result' = list(store, skip, limit)
        /\ error' = "none"
        /\ violated' = {}
        /\ UNCHANGED <<store, now, uidState>>

Create ==
    /\ Idle
    /\ \E data \in CreateInputs, uid \in UIDs :
        LET out == create(store, data, uid, now)
        IN /\ call' = [NoCall EXCEPT !.name = "create", !.uid = uid, !.data = data]
           /\ store' = out.store
           /\ result' = out.result
           /\ error' = out.raised
           /\ violated' = out.violated
           /\ uidState' = IF out.raised = "none"
                          THEN [uidState EXCEPT ![uid] = "created"]
                          ELSE uidState
           /\ UNCHANGED now

Update ==
    /\ Idle
    /\ \E i \in DOMAIN store, data \in Payloads :
        LET out == update(store, Load(store[i]), data, now)
        IN /\ call' = [NoCall EXCEPT !.name = "update", !.uid = store[i].uid,
                                     !.pos = i, !.data = data]
           /\ store' = out.store
           /\ result' = out.result
           /\ error' = out.raised
           /\ violated' = out.violated
           /\ UNCHANGED <<now, uidState>>

Save ==
    /\ Idle
    /\ \E i \in DOMAIN store, data \in Mutations :
        LET out == save(store, Merge(Load(store[i]), data), now)
        IN /\ call' = [NoCall EXCEPT !.name = "save", !.uid = store[i].uid,
                                     !.pos = i, !.data = data]
           /\ store' = out.store
           /\ result' = out.result
           /\ error' = out.raised
           /\ violated' = out.violated
           /\ UNCHANGED <<now, uidState>>

Delete ==
    /\ Idle
    /\ \E uid \in UIDs :
        LET out == delete(store, uid)
        IN /\ call' = [NoCall EXCEPT !.name = "delete", !.uid = uid]
           /\ store' = out.store
           /\ result' = out.result
           /\ error' = out.raised
           /\ violated' = {}
           /\ uidState' = IF out.raised = "none"
                          THEN [uidState EXCEPT ![uid] = "deleted"]
                          ELSE uidState
           /\ UNCHANGED now

BulkCreate ==
    /\ Idle
    /\ \E elements \in Batches :
        /\ "bulk_create" \notin Methods
        /\ call' = [NoCall EXCEPT !.name = "bulk_create", !.elements = elements]
        /\ result' = <<>>
        /\ error' = "AttributeError"
        /\ violated' = {}
        /\ UNCHANGED <<store, now, uidState>>

\* the awaiting caller resumes with the outcome of the call
Return ==
    /\ ~Idle
    /\ call' = NoCall
    /\ result' = <<>>
    /\ error' = "none"
    /\ violated' = {}
    /\ UNCHANGED <<store, now, uidState>>

Next ==
    \/ Tick
    \/ Get
    \/ GetOrRaise
    \/ List
    \/ Create
    \/ Update
    \/ Save
    \/ Delete
    \/ BulkCreate
    \/ Return

Spec == Init /\ [][Next]_vars

\* ------------------------------------------------------------------ claims
Called(name) == call.name = name
Succeeded == error = "none"

Carried(s, token) == {i \in DOMAIN s : s[i].token = token}

C2_DuplicateUniqueRejected ==
    [][(call'.name = "create" /\ call'.data.token # Null) =>
          LET token == call'.data.token
              carried == Carried(store, token) # {}
              uidTaken == Where(store, call'.uid) # <<>>
          IN /\ carried => (error' = "CreateException" /\ store' = store)
             /\ (~carried /\ ~uidTaken) => (error' = "none" /\ Len(store') = Len(store) + 1)
             /\ (carried \/ error' = "none") => Cardinality(Carried(store', token)) = 1
      ]_vars

C2_Witness ==
    /\ Called("create") /\ error = "CreateException"
    /\ Where(store, call.uid) = <<>>
    /\ Cardinality(Carried(store, call.data.token)) = 1

\* C3: create fails with CreateException only when a uniqueness constraint was
\* violated; any other constraint violation reaches the caller as the
\* storage's own IntegrityError.
C3_AlreadyExistsOnlyForUniqueness ==
    Called("create") =>
        /\ error = "CreateException" => "unique" \in violated
        /\ (violated # {} /\ "unique" \notin violated) => error = "IntegrityError"

\* C4: no two stored records share a uid, and no call changes the uid of a
\* record that stays stored.
C4_UidImmutableAndUnique ==
    [][/\ \A i, j \in DOMAIN store' : i # j => store'[i].uid # store'[j].uid
       /\ Len(store') >= Len(store) =>
             \A i \in DOMAIN store : store'[i].uid = store[i].uid
       /\ Len(store') < Len(store) =>
             \E k \in DOMAIN store :
                 store' = [i \in 1..(Len(store) - 1) |->
                              IF i < k THEN store[i] ELSE store[i + 1]]
      ]_vars

C6_UpdatedAtStrictlyIncreases ==
    [][(call'.name \in {"update", "save"} /\ error' = "none") =>
          store'[call'.pos].updated_at > store[call'.pos].updated_at
      ]_vars

\* C6 (amended): every successful update or save leaves the record with
\* updated_at equal to the clock reading taken during the call, whatever the
\* payload holds; that is never less than the value before the call, and equal
\* to it when the clock has not moved since.
C6_UpdatedAtIsClockReading ==
    [][(call'.name \in {"update", "save"} /\ error' = "none") =>
          /\ store'[call'.pos].updated_at = now
          /\ store'[call'.pos].updated_at >= store[call'.pos].updated_at
          /\ result'[1].updated_at = now
      ]_vars

C6_Witness ==
    /\ Called("update") /\ Succeeded
    /\ "updated_at" \in DOMAIN call.data
    /\ call.data.updated_at > now
    /\ now > 0
    /\ store[call.pos].updated_at = now

\* C7: once delete(uid) has succeeded, get(uid) is empty and get_or_raise(uid)
\* raises NotFoundException until a create stores a record under that uid
\* again; a delete of a uid that is not stored raises NotFoundException and
\* leaves the storage as it was.
C7_DeletedStaysAbsent ==
    [][/\ \A u \in UIDs :
             uidState'[u] = "deleted" =>
                 /\ get(store', u) = <<>>
                 /\ get_or_raise(store', u).raised = "NotFoundException"
       /\ (call'.name = "delete" /\ get(store, call'.uid) = <<>>) =>
             (error' = "NotFoundException" /\ store' = store)
       /\ (call'.name = "delete" /\ error' = "NotFoundException") =>
             (get(store, call'.uid) = <<>> /\ store' = store)
      ]_vars

\* C8 (as stated): list(skip=k, limit=n) returns the records at positions
\* k+1 .. k+n of the storage order, min(n, max(0, total - k)) of them;
\* list(limit=1) returns one record on a non-empty store, and list(skip=1)
\* returns fewer records than list() whenever the store holds at most 100.
ListedRight(s, k, n) ==
    /\ Len(list(s, k, n)) = Min(n, Max(0, Len(s) - k))
    /\ \A j \in 1..Len(list(s, k, n)) : list(s, k, n)[j] = Load(s[k + j])

C8_ListPagination ==
    /\ \A k \in 0..MaxSkip, n \in (0..MaxLimit) \cup {DefaultLimit} :
           ListedRight(store, k, n)
    /\ Called("list") => result = list(store, call.skip, call.limit)
    /\ store # <<>> => Len(list(store, DefaultSkip, 1)) = 1
    /\ Len(store) <= DefaultLimit =>
           Len(list(store, 1, DefaultLimit)) < Len(list(store, DefaultSkip, DefaultLimit))

\* C8 (amended): as stated, except that list(skip=1) returns fewer records
\* than list() whenever the store holds at least 1 and at most 100 records.
C8_ListPaginationNonEmpty ==
    /\ \A k \in 0..MaxSkip, n \in (0..MaxLimit) \cup {DefaultLimit} :
           ListedRight(store, k, n)
    /\ Called("list") => result = list(store, call.skip, call.limit)
    /\ store # <<>> => Len(list(store, DefaultSkip, 1)) = 1
    /\ (store # <<>> /\ Len(store) <= DefaultLimit) =>
           Len(list(store, 1, DefaultLimit)) < Len(list(store, DefaultSkip, DefaultLimit))

C8_Witness ==
    /\ Called("list")
    /\ call.skip = 1 /\ call.limit = DefaultLimit
    /\ Len(store) = 2
    /\ result = <<Load(store[2])>>

\* C9: get_or_raise raises NotFoundException exactly when get returns nothing
\* and otherwise returns what get returns; get never raises; and for a uid no
\* create ever used, get_or_raise raises NotFoundException.
C9_GetOrRaiseMatchesGet ==
    /\ Called("get_or_raise") =>
          /\ error \in {"none", "NotFoundException"}
          /\ error = "NotFoundException" <=> get(store, call.uid) = <<>>
          /\ error = "none" => result = get(store, call.uid)
    /\ Called("get") => error = "none"
    /\ \A u \in UIDs :
          uidState[u] = "never" =>
              get_or_raise(store, u).raised = "NotFoundException"

\* C10: a batch create of inputs whose tokens are distinct and carried by no
\* stored record returns one record per input, in input order, each with the
\* fields of its input and each retrievable by get on its uid.
C10_BatchCreate ==
    [][(/\ call'.name = "bulk_create"
        /\ \A i \in DOMAIN call'.elements :
              Carried(store, call'.elements[i].token) = {}) =>
          /\ error' = "none"
          /\ Len(result') = Len(call'.elements)
          /\ \A i \in DOMAIN call'.elements :
                /\ \A f \in DOMAIN call'.elements[i] :
                      result'[i][f] = call'.elements[i][f]
                /\ get(store', result'[i].uid) = <<result'[i]>>
      ]_vars

====
